---- MODULE Spec2Model ----
(***************************************************************************)
(* Model of the columnar concat kernel,                                    *)
(*   src/common/expression/src/kernels/concat.rs                           *)
(* Chunk::concat and Column::concat are pure functions: they are operators *)
(* here, and the state machine draws an input slice in Init and applies    *)
(* them, flat or regrouped, in its actions.                                *)
(*                                                                         *)
(* Columns are records tagged by variant:                                  *)
(*   Number     [tag, ty, buffer]        Column::Int32(Buffer<i32>), ...   *)
(*   Null       [tag, len]               Column::Null { len }              *)
(*   EmptyArray [tag, len]               Column::EmptyArray { len }        *)
(*   Boolean    [tag, bitmap]            Column::Boolean(Bitmap)           *)
(*   String     [tag, data, offsets]     Column::String(StringColumn)      *)
(*   Array      [tag, values, offsets]   Column::Array(ArrayColumn)        *)
(*   Nullable   [tag, column, validity]  Column::Nullable(NullableColumn)  *)
(*   Tuple      [tag, fields, len]       Column::Tuple { fields, len }     *)
(* Sequences are 1-based; offsets keep the code's 0-based values, so row r *)
(* (1-based) of a String spans data[offsets[r]+1 .. offsets[r+1]].         *)
(***************************************************************************)
EXTENDS Integers, Sequences, FiniteSets, TLC

\* call     the entry point the caller uses: "Column::concat" or "Chunk::concat"
\* family   the type (or schema) the elements of the caller's slice share
\* columns  the slice handed to Column::concat (concat.rs:70)
\* chunks   the slice handed to Chunk::concat (concat.rs:38)
\* how      "none" before the call; then "flat" (one call on the slice), or
\*          "left" / "right" (three elements merged in two nested calls)
\* ret      what the call returned: Ok(value), Err(code), or a panic
\*
\* The DataSource of the query server (datasource.rs), shared by its tasks:
\* databases  DataSource.databases, the map behind the RwLock: name -> entry
\* pc         where each task stands in its create_database, drop_database
\*            or get_database call
\* plan       the plan (or name) each task's call was given
\* database   the local `database` of drop_database (datasource.rs:206)
\* result     what each task's call returned
VARIABLES call, family, columns, chunks, how, ret,
          databases, pc, plan, database, result

kernelvars == <<call, family, columns, chunks, how, ret>>

dsvars == <<databases, pc, plan, database, result>>

vars == <<call, family, columns, chunks, how, ret,
          databases, pc, plan, database, result>>

\* ------------------------------------------------------------------ bounds

\* Longest input slice (k) handed to concat.
MaxK == 3
\* Most rows in one input column or chunk.
MaxLen == 2
\* Most rows in one input slice, all elements together.
MaxRows == 4

\* ------------------------------------------------------- column variants

NumberColumn(ty, buffer) == [tag |-> "Number", ty |-> ty, buffer |-> buffer]

NullColumn(len) == [tag |-> "Null", len |-> len]

EmptyArrayColumn(len) == [tag |-> "EmptyArray", len |-> len]

BooleanColumn(bitmap) == [tag |-> "Boolean", bitmap |-> bitmap]

StringColumn(data, offsets) == [tag |-> "String", data |-> data, offsets |-> offsets]

ArrayColumn(values, offsets) == [tag |-> "Array", values |-> values, offsets |-> offsets]

NullableColumn(column, validity) ==
    [tag |-> "Nullable", column |-> column, validity |-> validity]

TupleColumn(fields, len) == [tag |-> "Tuple", fields |-> fields, len |-> len]

\* Column::len
ColumnLen(c) ==
    CASE c.tag = "Number" -> Len(c.buffer)
      [] c.tag = "Null" -> c.len
      [] c.tag = "EmptyArray" -> c.len
      [] c.tag = "Boolean" -> Len(c.bitmap)
      [] c.tag = "String" -> Len(c.offsets) - 1
      [] c.tag = "Array" -> Len(c.offsets) - 1
      [] c.tag = "Nullable" -> Len(c.validity)
      [] c.tag = "Tuple" -> c.len

\* columns.iter().map(|c| c.len()).sum()
RECURSIVE SumLen(_)
SumLen(cs) ==
    IF cs = <<>> THEN 0 ELSE ColumnLen(Head(cs)) + SumLen(Tail(cs))

\* ------------------------------------------- typed columns and builders
\* The ValueType descriptors (NullType, EmptyArrayType, BooleanType,
\* StringType, ArrayType<AnyType>) and their builders.  T is the name of the
\* descriptor.  A typed column is the payload of the variant: the row count
\* for Null and EmptyArray, the bitmap for Boolean, [data, offsets] for
\* String and [values, offsets] for Array.

\* T::try_downcast_column(c) is Some exactly when the variant tag is T's.
CanDowncast(T, c) == c.tag = T

\* T::try_downcast_column(c).unwrap()
try_downcast_column(T, c) ==
    CASE T = "Null" -> c.len
      [] T = "EmptyArray" -> c.len
      [] T = "Boolean" -> c.bitmap
      [] T = "String" -> [data |-> c.data, offsets |-> c.offsets]
      [] T = "Array" -> [values |-> c.values, offsets |-> c.offsets]

\* T::upcast_column(T::build_column(builder)): the builder is consumed and
\* its capacities are dropped.
build_column(T, builder) ==
    CASE T = "Null" -> NullColumn(builder)
      [] T = "EmptyArray" -> EmptyArrayColumn(builder)
      [] T = "Boolean" -> BooleanColumn(builder.bits)
      [] T = "String" -> StringColumn(builder.data, builder.offsets)
      [] T = "Array" -> ArrayColumn(builder.builder, builder.offsets)

\* MutableBitmap::with_capacity(capacity)
MutableBitmap_with_capacity(capacity) == [bits |-> <<>>, capacity |-> capacity]

\* StringColumnBuilder::with_capacity(len, data_capacity)
StringColumnBuilder_with_capacity(len, data_capacity) ==
    [data |-> <<>>, offsets |-> <<0>>,
     value_capacity |-> len, data_capacity |-> data_capacity]

\* Column::memory_size of a String column: 8 bytes per offset, the rest data.
memory_size(c) == Len(c.data) + 8 * Len(c.offsets)

\* Column::slice(lo..hi): the rows lo..hi-1 (0-based) of a dense column, as a
\* column that satisfies its variant's invariants (offsets start at 0 and end
\* at the payload's length).
RECURSIVE slice_column(_, _, _)
slice_column(c, lo, hi) ==
    CASE c.tag = "Number" -> NumberColumn(c.ty, SubSeq(c.buffer, lo + 1, hi))
      [] c.tag = "Boolean" -> BooleanColumn(SubSeq(c.bitmap, lo + 1, hi))
      [] c.tag = "Null" -> NullColumn(hi - lo)
      [] c.tag = "EmptyArray" -> EmptyArrayColumn(hi - lo)
      [] c.tag = "String" ->
            StringColumn(SubSeq(c.data, c.offsets[lo + 1] + 1, c.offsets[hi + 1]),
                         [i \in 1..(hi - lo + 1) |->
                              c.offsets[lo + i] - c.offsets[lo + 1]])
      [] c.tag = "Array" ->
            ArrayColumn(slice_column(c.values, c.offsets[lo + 1], c.offsets[hi + 1]),
                        [i \in 1..(hi - lo + 1) |->
                              c.offsets[lo + i] - c.offsets[lo + 1]])
      [] c.tag = "Nullable" ->
            NullableColumn(slice_column(c.column, lo, hi),
                           SubSeq(c.validity, lo + 1, hi))
      [] c.tag = "Tuple" ->
            TupleColumn([j \in 1..Len(c.fields) |-> slice_column(c.fields[j], lo, hi)],
                        hi - lo)

\* T::iter_column(col): exactly len items, in row order.  An item is () for
\* Null and EmptyArray, a bit for Boolean, a byte slice for String and the
\* row's slice of the inner column for Array.
iter_column(T, col) ==
    CASE T = "Null" -> [i \in 1..col |-> "()"]
      [] T = "EmptyArray" -> [i \in 1..col |-> "()"]
      [] T = "Boolean" -> col
      [] T = "String" ->
            [i \in 1..(Len(col.offsets) - 1) |->
                 SubSeq(col.data, col.offsets[i] + 1, col.offsets[i + 1])]
      [] T = "Array" ->
            [i \in 1..(Len(col.offsets) - 1) |->
                 slice_column(col.values, col.offsets[i], col.offsets[i + 1])]

\* ColumnBuilder::append: the rows of `other` appended to an AnyType builder
\* of the same type (a builder is modelled by the column it would build).
RECURSIVE append_builder(_, _)
append_builder(builder, other) ==
    CASE builder.tag = "Number" -> NumberColumn(builder.ty, builder.buffer \o other.buffer)
      [] builder.tag = "Boolean" -> BooleanColumn(builder.bitmap \o other.bitmap)
      [] builder.tag = "Null" -> NullColumn(builder.len + other.len)
      [] builder.tag = "EmptyArray" -> EmptyArrayColumn(builder.len + other.len)
      [] builder.tag = "String" ->
            StringColumn(builder.data \o
                             SubSeq(other.data, other.offsets[1] + 1,
                                    other.offsets[Len(other.offsets)]),
                         builder.offsets \o
                             [i \in 1..(Len(other.offsets) - 1) |->
                                  other.offsets[i + 1] - other.offsets[1]
                                      + Len(builder.data)])
      [] builder.tag = "Array" ->
            ArrayColumn(append_builder(builder.values,
                            slice_column(other.values, other.offsets[1],
                                         other.offsets[Len(other.offsets)])),
                        builder.offsets \o
                             [i \in 1..(Len(other.offsets) - 1) |->
                                  other.offsets[i + 1] - other.offsets[1]
                                      + ColumnLen(builder.values)])
      [] builder.tag = "Nullable" ->
            NullableColumn(append_builder(builder.column, other.column),
                           builder.validity \o other.validity)
      [] builder.tag = "Tuple" ->
            TupleColumn([j \in 1..Len(builder.fields) |->
                             append_builder(builder.fields[j], other.fields[j])],
                        builder.len + other.len)

\* ArrayColumnBuilder::from_column(col): a builder holding col's rows.
ArrayColumnBuilder_from_column(col) ==
    [builder |-> col.values, offsets |-> col.offsets, capacity |-> 0]

\* ArrayColumnBuilder::reserve(additional)
reserve(builder, additional) == [builder EXCEPT !.capacity = additional]

\* T::push_item(&mut builder, item): appends exactly one row.
push_item(T, builder, item) ==
    CASE T = "Null" -> builder + 1
      [] T = "EmptyArray" -> builder + 1
      [] T = "Boolean" -> [builder EXCEPT !.bits = Append(@, item)]
      [] T = "String" ->
            [builder EXCEPT !.data = @ \o item,
                            !.offsets = Append(@, Len(builder.data \o item))]
      [] T = "Array" ->
            LET b == append_builder(builder.builder, item)
            IN  [builder EXCEPT !.builder = b,
                                !.offsets = Append(@, ColumnLen(b))]

\* ---------------------------------------------------------- Column::concat

\* Mutant of concat_primitive_types: the loop stops one buffer short when
\* there are three or more.
RECURSIVE concat_primitive_types_drop_last(_)
concat_primitive_types_drop_last(values) ==
    IF values = <<>> THEN <<>>
    ELSE IF Len(values) >= 3
    THEN concat_primitive_types_drop_last(SubSeq(values, 1, Len(values) - 1))
    ELSE Head(values) \o concat_primitive_types_drop_last(Tail(values))

\* fn concat_primitive_types(values: &[Buffer<T>]) -> Buffer<T>
RECURSIVE concat_primitive_types(_)
concat_primitive_types(values) ==
    IF values = <<>> THEN <<>>
    ELSE Head(values) \o concat_primitive_types(Tail(values))

\* Mutant of PushItems: an empty string is not pushed.
RECURSIVE PushItems_elide_empty(_, _, _)
PushItems_elide_empty(T, builder, items) ==
    IF items = <<>> THEN builder
    ELSE IF T = "String" /\ Head(items) = <<>>
    THEN PushItems_elide_empty(T, builder, Tail(items))
    ELSE PushItems_elide_empty(T, push_item(T, builder, Head(items)), Tail(items))

\* for item in T::iter_column(&col) { T::push_item(&mut builder, item) }
RECURSIVE PushItems(_, _, _)
PushItems(T, builder, items) ==
    IF items = <<>> THEN builder
    ELSE PushItems(T, push_item(T, builder, Head(items)), Tail(items))

\* for col in columns { ... }: the outer loop of concat_scalar_types.
RECURSIVE PushColumns(_, _, _)
PushColumns(T, builder, typed) ==
    IF typed = <<>> THEN builder
    ELSE PushColumns(T, PushItems(T, builder, iter_column(T, Head(typed))), Tail(typed))

\* Mutant of concat_scalar_types: the columns are visited last to first.
concat_scalar_types_reversed(T, builder, cols) ==
    LET typed == [i \in 1..Len(cols) |->
                      try_downcast_column(T, cols[Len(cols) + 1 - i])]
    IN  build_column(T, PushColumns(T, builder, typed))

\* fn concat_scalar_types<T: ValueType>(builder, columns: &[Column]) -> Column
concat_scalar_types(T, builder, cols) ==
    LET typed == [i \in 1..Len(cols) |-> try_downcast_column(T, cols[i])]
    IN  build_column(T, PushColumns(T, builder, typed))

\* Mutant of NumberArm: the result is always upcast to Int64.
NumberArm_upcast_int64(cols) ==
    LET values == [i \in 1..Len(cols) |-> cols[i].buffer]
    IN  NumberColumn("Int64", concat_primitive_types(values))

\* Column::SRC_TYPE(_) arm: every number type takes the same path, and the
\* result is upcast to the number type of columns[0].
NumberArm(cols) ==
    LET values == [i \in 1..Len(cols) |-> cols[i].buffer]
    IN  NumberColumn(cols[1].ty, concat_primitive_types(values))

\* columns.iter().map(|c| c.memory_size() - c.len() * 8).sum()
RECURSIVE data_capacity(_)
data_capacity(cols) ==
    IF cols = <<>> THEN 0
    ELSE (memory_size(Head(cols)) - ColumnLen(Head(cols)) * 8)
             + data_capacity(Tail(cols))

\* Column::String(_) arm
StringArm(capacity, cols) ==
    LET builder == StringColumnBuilder_with_capacity(capacity, data_capacity(cols))
    IN  concat_scalar_types("String", builder, cols)

\* Mutant of ArrayArm: the builder is seeded with columns[0] itself, not with
\* its zero-length slice.
ArrayArm_unsliced(col, capacity, cols) ==
    LET builder == reserve(ArrayColumnBuilder_from_column(col), capacity)
    IN  concat_scalar_types("Array", builder, cols)

\* Column::Array(col) arm
ArrayArm(col, capacity, cols) ==
    LET builder == reserve(ArrayColumnBuilder_from_column(slice_column(col, 0, 0)),
                           capacity)
    IN  concat_scalar_types("Array", builder, cols)

RECURSIVE Column_concat(_)

\* Mutant of NullableArm: the validity bitmaps are gathered last to first.
NullableArm_reversed_validity(capacity, cols) ==
    LET inners == [i \in 1..Len(cols) |-> cols[i].column]
        bitmaps == [i \in 1..Len(cols) |->
                        BooleanColumn(cols[Len(cols) + 1 - i].validity)]
        column == Column_concat(inners)
        validity_builder == MutableBitmap_with_capacity(capacity)
        validity == concat_scalar_types("Boolean", validity_builder, bitmaps)
    IN  NullableColumn(column, try_downcast_column("Boolean", validity))

\* Column::Nullable(_) arm
NullableArm(capacity, cols) ==
    LET inners == [i \in 1..Len(cols) |-> cols[i].column]
        bitmaps == [i \in 1..Len(cols) |-> BooleanColumn(cols[i].validity)]
        column == Column_concat(inners)
        validity_builder == MutableBitmap_with_capacity(capacity)
        validity == concat_scalar_types("Boolean", validity_builder, bitmaps)
    IN  NullableColumn(column, try_downcast_column("Boolean", validity))

\* Mutant of TupleArm: the result takes its len from columns[0].
TupleArm_first_len(fields, capacity, cols) ==
    TupleColumn([idx \in 1..Len(fields) |->
                     Column_concat([i \in 1..Len(cols) |-> cols[i].fields[idx]])],
                cols[1].len)

\* Column::Tuple { fields, .. } arm
TupleArm(fields, capacity, cols) ==
    TupleColumn([idx \in 1..Len(fields) |->
                     Column_concat([i \in 1..Len(cols) |-> cols[i].fields[idx]])],
                capacity)

\* pub fn concat(columns: &[Column]) -> Column, on a non-empty slice
Column_concat(cols) ==
    IF Len(cols) = 1 THEN cols[1]
    ELSE LET capacity == SumLen(cols)
             first == cols[1]
         IN  CASE first.tag = "Number" -> NumberArm(cols)
               [] first.tag = "Null" -> concat_scalar_types("Null", 0, cols)
               [] first.tag = "EmptyArray" -> concat_scalar_types("EmptyArray", 0, cols)
               [] first.tag = "Boolean" ->
                      concat_scalar_types("Boolean",
                                          MutableBitmap_with_capacity(capacity), cols)
               [] first.tag = "String" -> StringArm(capacity, cols)
               [] first.tag = "Array" -> ArrayArm(first, capacity, cols)
               [] first.tag = "Nullable" -> NullableArm(capacity, cols)
               [] first.tag = "Tuple" -> TupleArm(first.fields, capacity, cols)

\* ----------------------------------------------------------- Chunk::concat

\* Value::Scalar(s) / Value::Column(c)
ScalarValue(s) == [kind |-> "Scalar", scalar |-> s]

ColumnValue(c) == [kind |-> "Column", column |-> c]

\* Chunk::new(columns, num_rows)
Chunk_new(cols, num_rows) == [columns |-> cols, num_rows |-> num_rows]

\* s.as_ref().repeat(n).build(): a dense column of n rows, each equal to s.
repeat(s, n) ==
    CASE s.tag = "Null" -> NullColumn(n)
      [] s.tag = "EmptyArray" -> EmptyArrayColumn(n)
      [] s.tag = "Number" -> NumberColumn(s.ty, [i \in 1..n |-> s.value])
      [] s.tag = "Boolean" -> BooleanColumn([i \in 1..n |-> s.value])
      [] s.tag = "String" ->
            StringColumn(concat_primitive_types([i \in 1..n |-> s.value]),
                         [i \in 1..(n + 1) |-> (i - 1) * Len(s.value)])

\* Result<Chunk>
Ok(v) == [status |-> "Ok", value |-> v]

Err(code) == [status |-> "Err", code |-> code]

\* chunks.iter().map(|c| c.num_rows()).sum()
RECURSIVE SumRows(_)
SumRows(cs) ==
    IF cs = <<>> THEN 0 ELSE Head(cs).num_rows + SumRows(Tail(cs))

\* Mutant of GatherColumns: every scalar is repeated chunks[0].num_rows()
\* times.
GatherColumns_first_rows(cs, i) ==
    [k \in 1..Len(cs) |->
        LET c == cs[k].columns[i]
        IN  IF c.kind = "Scalar" THEN repeat(c.scalar, cs[1].num_rows)
            ELSE c.column]

\* The inner loop of Chunk::concat: slot i of every chunk, scalars broadcast.
GatherColumns(cs, i) ==
    [k \in 1..Len(cs) |->
        LET c == cs[k].columns[i]
        IN  IF c.kind = "Scalar" THEN repeat(c.scalar, cs[k].num_rows)
            ELSE c.column]

\* Mutant of Chunk_concat: no test for the empty slice.
Chunk_concat_no_empty_check(cs) ==
    IF Len(cs) = 0 THEN Ok(Chunk_new(<<>>, 0))
    ELSE IF Len(cs) = 1 THEN Ok(cs[1])
    ELSE LET num_rows == SumRows(cs)
             concat_columns ==
                 [i \in 1..Len(cs[1].columns) |->
                      ColumnValue(Column_concat(GatherColumns(cs, i)))]
         IN  Ok(Chunk_new(concat_columns, num_rows))

\* Mutant of Chunk_concat: the row count is that of chunks[0].
Chunk_concat_first_rows(cs) ==
    IF Len(cs) = 0 THEN Err("EmptyData")
    ELSE IF Len(cs) = 1 THEN Ok(cs[1])
    ELSE LET num_rows == cs[1].num_rows
             concat_columns ==
                 [i \in 1..Len(cs[1].columns) |->
                      ColumnValue(Column_concat(GatherColumns(cs, i)))]
         IN  Ok(Chunk_new(concat_columns, num_rows))

\* Mutant of Chunk_concat: a slot that is a scalar in chunks[0] is kept as
\* that scalar.
Chunk_concat_keep_scalar(cs) ==
    IF Len(cs) = 0 THEN Err("EmptyData")
    ELSE IF Len(cs) = 1 THEN Ok(cs[1])
    ELSE LET num_rows == SumRows(cs)
             concat_columns ==
                 [i \in 1..Len(cs[1].columns) |->
                      IF cs[1].columns[i].kind = "Scalar" THEN cs[1].columns[i]
                      ELSE ColumnValue(Column_concat(GatherColumns(cs, i)))]
         IN  Ok(Chunk_new(concat_columns, num_rows))

\* Mutant of Chunk_concat: no fast path for a slice of one chunk.
Chunk_concat_no_fast_path(cs) ==
    IF Len(cs) = 0 THEN Err("EmptyData")
    ELSE LET num_rows == SumRows(cs)
             concat_columns ==
                 [i \in 1..Len(cs[1].columns) |->
                      ColumnValue(Column_concat(GatherColumns(cs, i)))]
         IN  Ok(Chunk_new(concat_columns, num_rows))

\* pub fn concat(chunks: &[Chunk]) -> Result<Chunk>
Chunk_concat(cs) ==
    IF Len(cs) = 0 THEN Err("EmptyData")
    ELSE IF Len(cs) = 1 THEN Ok(cs[1])
    ELSE LET num_rows == SumRows(cs)
             concat_columns ==
                 [i \in 1..Len(cs[1].columns) |->
                      ColumnValue(Column_concat(GatherColumns(cs, i)))]
         IN  Ok(Chunk_new(concat_columns, num_rows))

\* -------------------------------------------------------------- the aborts
\* The unwraps and indexings of the kernel that panic when the caller breaks
\* the precondition.  A panic unwinds: the locals built so far are dropped
\* and the caller gets no value.

NoRet == [status |-> "none"]

Panic == [status |-> "panic"]

\* NumberType::<SRC_TYPE>::try_downcast_column(c) is Some exactly for a
\* Number column of that number type.
NumberDowncasts(ty, c) == c.tag = "Number" /\ c.ty = ty

\* Column::concat(columns) panics: at `&columns[0]` on an empty slice, at a
\* try_downcast_column(c).unwrap() or as_tuple().unwrap() on a column of
\* another variant, at `.0[idx]` on a tuple with fewer fields, or in a
\* recursive call.
RECURSIVE Column_concat_panics(_)
Column_concat_panics(cols) ==
    IF Len(cols) = 0 THEN TRUE
    ELSE IF Len(cols) = 1 THEN FALSE
    ELSE LET first == cols[1]
             K == 1..Len(cols)
         IN  CASE first.tag = "Number" ->
                      \E i \in K : ~NumberDowncasts(first.ty, cols[i])
               [] first.tag = "Nullable" ->
                      \/ \E i \in K : ~CanDowncast("Nullable", cols[i])
                      \/ Column_concat_panics([i \in K |-> cols[i].column])
               [] first.tag = "Tuple" ->
                      \E idx \in 1..Len(first.fields) :
                         \/ \E i \in K : \/ ~CanDowncast("Tuple", cols[i])
                                         \/ Len(cols[i].fields) < idx
                         \/ Column_concat_panics([i \in K |-> cols[i].fields[idx]])
               [] OTHER -> \E i \in K : ~CanDowncast(first.tag, cols[i])

\* What a caller of Column::concat gets.
Column_concat_outcome(cols) ==
    IF Column_concat_panics(cols) THEN Panic ELSE Ok(Column_concat(cols))

\* Chunk::concat(chunks) panics: at `chunk.columns()[i]` on a chunk with
\* fewer columns than chunks[0], or in Column::concat of a gathered slot.
Chunk_concat_panics(cs) ==
    /\ Len(cs) >= 2
    /\ \E i \in 1..Len(cs[1].columns) :
          \/ \E k \in 1..Len(cs) : Len(cs[k].columns) < i
          \/ Column_concat_panics(GatherColumns(cs, i))

\* Mutant of Chunk_concat_outcome: a panic in slot i is caught and the slots
\* merged before it are returned as a chunk.
Chunk_concat_outcome_partial(cs) ==
    IF Chunk_concat_panics(cs)
    THEN LET bad(i) == \/ \E k \in 1..Len(cs) : Len(cs[k].columns) < i
                       \/ Column_concat_panics(GatherColumns(cs, i))
             done == {i \in 1..Len(cs[1].columns) : \A j \in 1..i : ~bad(j)}
         IN  Ok(Chunk_new([i \in 1..Cardinality(done) |->
                              ColumnValue(Column_concat(GatherColumns(cs, i)))],
                          SumRows(cs)))
    ELSE Chunk_concat(cs)

\* What a caller of Chunk::concat gets.
Chunk_concat_outcome(cs) ==
    IF Chunk_concat_panics(cs) THEN Panic ELSE Chunk_concat(cs)

\* ------------------------------------------------------------ input slices
\* A family maps a row count n in 0..MaxLen to the columns (or chunks) of n
\* rows it holds; the elements of one family agree in variant and inner type
\* (or in schema).

NumValues == {1, 2}

\* "", "a", "bc" as bytes
StrValues == {<<>>, <<97>>, <<98, 99>>}

\* The String column whose rows are the byte strings `rows`.
RECURSIVE StringOf(_)
StringOf(rows) ==
    IF rows = <<>> THEN StringColumn(<<>>, <<0>>)
    ELSE LET front == StringOf(SubSeq(rows, 1, Len(rows) - 1))
             data == front.data \o rows[Len(rows)]
         IN  StringColumn(data, Append(front.offsets, Len(data)))

\* The Array column whose rows are `rows`, each a column of the type of the
\* empty inner column `empty`.
RECURSIVE ArrayOf(_, _)
ArrayOf(empty, rows) ==
    IF rows = <<>> THEN ArrayColumn(empty, <<0>>)
    ELSE LET front == ArrayOf(empty, SubSeq(rows, 1, Len(rows) - 1))
             values == append_builder(front.values, rows[Len(rows)])
         IN  ArrayColumn(values, Append(front.offsets, ColumnLen(values)))

NumberColumns(ty) ==
    [n \in 0..MaxLen |-> {NumberColumn(ty, b) : b \in [1..n -> NumValues]}]

NullColumns == [n \in 0..MaxLen |-> {NullColumn(n)}]

EmptyArrayColumns == [n \in 0..MaxLen |-> {EmptyArrayColumn(n)}]

BooleanColumns == [n \in 0..MaxLen |-> {BooleanColumn(b) : b \in [1..n -> BOOLEAN]}]

StringColumns == [n \in 0..MaxLen |-> {StringOf(rows) : rows \in [1..n -> StrValues]}]

\* Array<Int64> with rows [], [1], [1, 2]
ArrayNumberColumns ==
    [n \in 0..MaxLen |->
        {ArrayOf(NumberColumn("Int64", <<>>), rows) :
            rows \in [1..n -> {NumberColumn("Int64", <<>>), NumberColumn("Int64", <<1>>),
                               NumberColumn("Int64", <<1, 2>>)}]}]

\* Array<String> with rows [], ["x"], ["y", "z"]
ArrayStringColumns ==
    [n \in 0..MaxLen |->
        {ArrayOf(StringOf(<<>>), rows) :
            rows \in [1..n -> {StringOf(<<>>), StringOf(<<<<120>>>>),
                               StringOf(<<<<121>>, <<122>>>>)}]}]

\* Nullable<Int64>; a null row keeps a payload
NullableColumns ==
    [n \in 0..MaxLen |->
        {NullableColumn(NumberColumn("Int64", b), v) :
            b \in [1..n -> NumValues], v \in [1..n -> BOOLEAN]}]

\* Tuple() with no fields
EmptyTupleColumns == [n \in 0..MaxLen |-> {TupleColumn(<<>>, n)}]

\* Tuple(UInt8, Boolean)
PairTupleColumns ==
    [n \in 0..MaxLen |->
        {TupleColumn(<<NumberColumn("UInt8", [i \in 1..n |-> i]), BooleanColumn(v)>>, n) :
            v \in [1..n -> BOOLEAN]}]

\* Tuple(Nullable<Int64>, String): two levels of nesting
NestedTupleColumns ==
    [n \in 0..MaxLen |->
        {TupleColumn(<<NullableColumn(NumberColumn("Int64", [i \in 1..n |-> 1]), v),
                       StringOf([i \in 1..n |-> IF v[i] THEN <<97>> ELSE <<>>])>>, n) :
            v \in [1..n -> BOOLEAN]}]

\* Scalars of a slot type
BooleanScalars == {[tag |-> "Boolean", value |-> b] : b \in BOOLEAN}

NumberScalars == {[tag |-> "Number", ty |-> "Int64", value |-> 2]}

StringScalars == {[tag |-> "String", value |-> v] : v \in {<<>>, <<97>>}}

\* The values a slot may hold in a chunk of r rows: a scalar, or a dense
\* column of r rows.
SlotValues(scalars, fam, r) ==
    {ScalarValue(s) : s \in scalars} \cup {ColumnValue(c) : c \in fam[r]}

\* Chunks with no columns and only a row count.
EmptySchemaChunks == [r \in 0..MaxLen |-> {Chunk_new(<<>>, r)}]

\* Chunks of schema (Boolean)
BooleanChunks ==
    [r \in 0..MaxLen |->
        {Chunk_new(<<v>>, r) : v \in SlotValues(BooleanScalars, BooleanColumns, r)}]

\* Chunks of schema (String)
StringChunks ==
    [r \in 0..MaxLen |->
        {Chunk_new(<<v>>, r) : v \in SlotValues(StringScalars, StringColumns, r)}]

\* Chunks of schema (Int64, Null)
PairChunks ==
    [r \in 0..MaxLen |->
        {Chunk_new(<<v, w>>, r) :
            v \in SlotValues(NumberScalars, [n \in 0..MaxLen |-> {NumberColumn("Int64", [i \in 1..n |-> 1])}], r),
            w \in SlotValues({[tag |-> "Null"]}, NullColumns, r)}]

\* ------------------------------------------------------------ state machine


ColumnFamilies ==
    {"UInt8", "Int64", "Null", "EmptyArray", "Boolean", "String", "Array(Int64)",
     "Array(String)", "Nullable(Int64)", "Tuple()", "Tuple(UInt8, Boolean)",
     "Tuple(Nullable(Int64), String)"}

\* Slices whose columns do not agree: in number type, in variant, in
\* nullability, in field count.
MixedColumnFamilies ==
    {"UInt8 | Int64", "Boolean | Null", "Nullable(Int64) | Int64",
     "Tuple() | Tuple(UInt8, Boolean)"}

ColumnFamily(name) ==
    CASE name = "UInt8" -> NumberColumns("UInt8")
      [] name = "Int64" -> NumberColumns("Int64")
      [] name = "Null" -> NullColumns
      [] name = "EmptyArray" -> EmptyArrayColumns
      [] name = "Boolean" -> BooleanColumns
      [] name = "String" -> StringColumns
      [] name = "Array(Int64)" -> ArrayNumberColumns
      [] name = "Array(String)" -> ArrayStringColumns
      [] name = "Nullable(Int64)" -> NullableColumns
      [] name = "Tuple()" -> EmptyTupleColumns
      [] name = "Tuple(UInt8, Boolean)" -> PairTupleColumns
      [] name = "Tuple(Nullable(Int64), String)" -> NestedTupleColumns
      [] name = "UInt8 | Int64" ->
             [n \in 0..MaxLen |-> NumberColumns("UInt8")[n] \cup NumberColumns("Int64")[n]]
      [] name = "Boolean | Null" ->
             [n \in 0..MaxLen |-> BooleanColumns[n] \cup NullColumns[n]]
      [] name = "Nullable(Int64) | Int64" ->
             [n \in 0..MaxLen |-> NullableColumns[n] \cup NumberColumns("Int64")[n]]
      [] name = "Tuple() | Tuple(UInt8, Boolean)" ->
             [n \in 0..MaxLen |-> EmptyTupleColumns[n] \cup PairTupleColumns[n]]

ChunkFamilies == {"()", "(Boolean)", "(String)", "(Int64, Null)"}

\* Slices whose chunks do not agree: in column count, in variant.
MixedChunkFamilies == {"() | (Boolean)", "(Boolean) | (Int64, Null)"}

ChunkFamily(name) ==
    CASE name = "()" -> EmptySchemaChunks
      [] name = "(Boolean)" -> BooleanChunks
      [] name = "(String)" -> StringChunks
      [] name = "(Int64, Null)" -> PairChunks
      [] name = "() | (Boolean)" ->
             [r \in 0..MaxLen |-> EmptySchemaChunks[r] \cup BooleanChunks[r]]
      [] name = "(Boolean) | (Int64, Null)" ->
             [r \in 0..MaxLen |-> BooleanChunks[r] \cup PairChunks[r]]

\* -------------------------------------------------------------- DataSource

\* The tasks that share the DataSource; each makes one call.
Tasks == {"a", "b"}

\* Database names: "default" is registered at start-up, "db1" is a user's.
Names == {"default", "db1"}

\* DatabaseEngineType
Engines == {"Local", "Remote"}

\* No entry under a name; no plan, no fetched database.
None == [engine |-> "none"]

\* Arc::new(LocalDatabase::create()) / Arc::new(RemoteDatabase::create(..)):
\* one allocation per creator, so two entries of one engine are told apart.
Entry(engine, by) == [engine |-> engine, by |-> by]

\* DataSource::try_create_with_config: the factories load their databases and
\* "default" is registered with the Local engine.
Loaded(db1) ==
    [n \in Names |-> IF n = "default" THEN Entry("Local", "start") ELSE db1]

\* No task has called the DataSource yet.
NoCalls ==
    /\ pc = [t \in Tasks |-> "idle"]
    /\ plan = [t \in Tasks |-> None]
    /\ database = [t \in Tasks |-> None]
    /\ result = [t \in Tasks |-> NoRet]

\* fn get_database(&self, db_name) under one read lock
get_database(db_name) ==
    IF databases[db_name] = None THEN Err("UnknownDatabase")
    ELSE Ok(databases[db_name])

\* A task calls get_database.
GetDatabase(t) ==
    /\ pc[t] = "idle"
    /\ \E db \in Names :
          /\ plan' = [plan EXCEPT ![t] = [op |-> "get", db |-> db]]
          /\ result' = [result EXCEPT ![t] = get_database(db)]
    /\ pc' = [pc EXCEPT ![t] = "done"]
    /\ UNCHANGED <<databases, database>>
    /\ UNCHANGED kernelvars

\* create_database, the test under the read lock, which is released at the
\* end of the condition: the name is taken, or the call goes on.
CreateCheck(t) ==
    /\ pc[t] = "idle"
    /\ \E db \in Names, if_not_exists \in BOOLEAN, engine \in Engines :
          /\ plan' = [plan EXCEPT ![t] =
                          [op |-> "create", db |-> db,
                           if_not_exists |-> if_not_exists, engine |-> engine]]
          /\ IF databases[db] # None
             THEN /\ result' = [result EXCEPT ![t] =
                                    IF if_not_exists THEN Ok("()")
                                    ELSE Err("UnknownDatabase")]
                  /\ pc' = [pc EXCEPT ![t] = "done"]
             ELSE /\ result' = result
                  /\ pc' = [pc EXCEPT ![t] =
                                IF engine = "Local" THEN "create_local"
                                ELSE "create_client"]
    /\ UNCHANGED <<databases, database>>
    /\ UNCHANGED kernelvars

\* DatabaseEngineType::Local: self.databases.write().insert(..), then Ok(()).
CreateInsertLocal(t) ==
    /\ pc[t] = "create_local"
    /\ databases' = [databases EXCEPT ![plan[t].db] = Entry("Local", t)]
    /\ result' = [result EXCEPT ![t] = Ok("()")]
    /\ pc' = [pc EXCEPT ![t] = "done"]
    /\ UNCHANGED <<plan, database>>
    /\ UNCHANGED kernelvars

\* DatabaseEngineType::Remote: try_get_client().await?
CreateGetClient(t) ==
    /\ pc[t] = "create_client"
    /\ \E got \in BOOLEAN :
          IF got
          THEN /\ pc' = [pc EXCEPT ![t] = "create_remote"]
               /\ result' = result
          ELSE /\ pc' = [pc EXCEPT ![t] = "done"]
               /\ result' = [result EXCEPT ![t] = Err("Client")]
    /\ UNCHANGED <<databases, plan, database>>
    /\ UNCHANGED kernelvars

\* client.create_database(plan).await.map(|_| { ..insert.. })?
CreateRemote(t) ==
    /\ pc[t] = "create_remote"
    /\ \E created \in BOOLEAN :
          IF created
          THEN /\ databases' = [databases EXCEPT ![plan[t].db] = Entry("Remote", t)]
               /\ result' = [result EXCEPT ![t] = Ok("()")]
          ELSE /\ databases' = databases
               /\ result' = [result EXCEPT ![t] = Err("Client")]
    /\ pc' = [pc EXCEPT ![t] = "done"]
    /\ UNCHANGED <<plan, database>>
    /\ UNCHANGED kernelvars

\* drop_database, the test under the read lock, which is released at the end
\* of the condition: the name is unknown, or the call goes on.
DropCheck(t) ==
    /\ pc[t] = "idle"
    /\ \E db \in Names, if_exists \in BOOLEAN :
          /\ plan' = [plan EXCEPT ![t] =
                          [op |-> "drop", db |-> db, if_exists |-> if_exists]]
          /\ IF databases[db] = None
             THEN /\ result' = [result EXCEPT ![t] =
                                    IF if_exists THEN Ok("()")
                                    ELSE Err("UnknownDatabase")]
                  /\ pc' = [pc EXCEPT ![t] = "done"]
             ELSE /\ result' = result
                  /\ pc' = [pc EXCEPT ![t] = "drop_get"]
    /\ UNCHANGED <<databases, database>>
    /\ UNCHANGED kernelvars

\* let database = self.get_database(db_name)?; if database.is_local() ..
DropGet(t) ==
    /\ pc[t] = "drop_get"
    /\ LET got == get_database(plan[t].db)
       IN  IF got.status = "Err"
           THEN /\ result' = [result EXCEPT ![t] = got]
                /\ pc' = [pc EXCEPT ![t] = "done"]
                /\ database' = database
           ELSE /\ result' = result
                /\ database' = [database EXCEPT ![t] = got.value]
                /\ pc' = [pc EXCEPT ![t] =
                              IF got.value.engine = "Local" THEN "drop_local"
                              ELSE "drop_client"]
    /\ UNCHANGED <<databases, plan>>
    /\ UNCHANGED kernelvars

\* self.databases.write().remove(db_name), then Ok(()).
DropRemoveLocal(t) ==
    /\ pc[t] = "drop_local"
    /\ databases' = [databases EXCEPT ![plan[t].db] = None]
    /\ result' = [result EXCEPT ![t] = Ok("()")]
    /\ pc' = [pc EXCEPT ![t] = "done"]
    /\ UNCHANGED <<plan, database>>
    /\ UNCHANGED kernelvars

\* a remote database: try_get_client().await?
DropGetClient(t) ==
    /\ pc[t] = "drop_client"
    /\ \E got \in BOOLEAN :
          IF got
          THEN /\ pc' = [pc EXCEPT ![t] = "drop_remote"]
               /\ result' = result
          ELSE /\ pc' = [pc EXCEPT ![t] = "done"]
               /\ result' = [result EXCEPT ![t] = Err("Client")]
    /\ UNCHANGED <<databases, plan, database>>
    /\ UNCHANGED kernelvars

\* client.drop_database(plan).await.map(|_| { ..remove.. })?
DropRemote(t) ==
    /\ pc[t] = "drop_remote"
    /\ \E dropped \in BOOLEAN :
          IF dropped
          THEN /\ databases' = [databases EXCEPT ![plan[t].db] = None]
               /\ result' = [result EXCEPT ![t] = Ok("()")]
          ELSE /\ databases' = databases
               /\ result' = [result EXCEPT ![t] = Err("Client")]
    /\ pc' = [pc EXCEPT ![t] = "done"]
    /\ UNCHANGED <<plan, database>>
    /\ UNCHANGED kernelvars

\* ------------------------------------------------------- the kernel's calls

\* The caller starts with an empty slice of one type or schema.
Init ==
    /\ how = "none"
    /\ ret = NoRet
    /\ columns = <<>>
    /\ chunks = <<>>
    /\ \/ call = "Column::concat" /\ family \in ColumnFamilies
       \/ call = "Chunk::concat" /\ family \in ChunkFamilies
    /\ databases = Loaded(None)
    /\ NoCalls

\* The caller adds one more column of the slice's type.
PushColumn ==
    /\ call = "Column::concat"
    /\ ret = NoRet
    /\ Len(columns) < MaxK
    /\ \E n \in 0..MaxLen :
          /\ SumLen(columns) + n <= MaxRows
          /\ \E c \in ColumnFamily(family)[n] : columns' = Append(columns, c)
    /\ UNCHANGED <<call, family, chunks, how, ret>>
    /\ UNCHANGED dsvars

\* The caller adds one more chunk of the slice's schema.
PushChunk ==
    /\ call = "Chunk::concat"
    /\ ret = NoRet
    /\ Len(chunks) < MaxK
    /\ \E r \in 0..MaxLen :
          /\ SumRows(chunks) + r <= MaxRows
          /\ \E c \in ChunkFamily(family)[r] : chunks' = Append(chunks, c)
    /\ UNCHANGED <<call, family, columns, how, ret>>
    /\ UNCHANGED dsvars

\* Column::concat(&columns).  On an empty slice neither the singleton test nor
\* the sum stops it, and `match &columns[0]` indexes out of range.
ColumnConcat ==
    /\ call = "Column::concat"
    /\ ret = NoRet
    /\ ret' = Column_concat_outcome(columns)
    /\ how' = "flat"
    /\ UNCHANGED <<call, family, columns, chunks>>
    /\ UNCHANGED dsvars

\* A caller that merges three columns in two calls, the first two first.
ColumnConcatLeft ==
    /\ call = "Column::concat"
    /\ ret = NoRet
    /\ Len(columns) = 3
    /\ LET inner == Column_concat_outcome(<<columns[1], columns[2]>>)
       IN  ret' = IF inner = Panic THEN Panic
                  ELSE Column_concat_outcome(<<inner.value, columns[3]>>)
    /\ how' = "left"
    /\ UNCHANGED <<call, family, columns, chunks>>
    /\ UNCHANGED dsvars

\* A caller that merges three columns in two calls, the last two first.
ColumnConcatRight ==
    /\ call = "Column::concat"
    /\ ret = NoRet
    /\ Len(columns) = 3
    /\ LET inner == Column_concat_outcome(<<columns[2], columns[3]>>)
       IN  ret' = IF inner = Panic THEN Panic
                  ELSE Column_concat_outcome(<<columns[1], inner.value>>)
    /\ how' = "right"
    /\ UNCHANGED <<call, family, columns, chunks>>
    /\ UNCHANGED dsvars

\* Chunk::concat(&chunks)
ChunkConcat ==
    /\ call = "Chunk::concat"
    /\ ret = NoRet
    /\ ret' = Chunk_concat_outcome(chunks)
    /\ how' = "flat"
    /\ UNCHANGED <<call, family, columns, chunks>>
    /\ UNCHANGED dsvars

\* A caller that merges three chunks in two calls, the first two first.
ChunkConcatLeft ==
    /\ call = "Chunk::concat"
    /\ ret = NoRet
    /\ Len(chunks) = 3
    /\ LET inner == Chunk_concat_outcome(<<chunks[1], chunks[2]>>)
       IN  ret' = IF inner = Panic THEN Panic
                  ELSE Chunk_concat_outcome(<<inner.value, chunks[3]>>)
    /\ how' = "left"
    /\ UNCHANGED <<call, family, columns, chunks>>
    /\ UNCHANGED dsvars

\* A caller that merges three chunks in two calls, the last two first.
ChunkConcatRight ==
    /\ call = "Chunk::concat"
    /\ ret = NoRet
    /\ Len(chunks) = 3
    /\ LET inner == Chunk_concat_outcome(<<chunks[2], chunks[3]>>)
       IN  ret' = IF inner = Panic THEN Panic
                  ELSE Chunk_concat_outcome(<<chunks[1], inner.value>>)
    /\ how' = "right"
    /\ UNCHANGED <<call, family, columns, chunks>>
    /\ UNCHANGED dsvars

Next ==
    \/ PushColumn
    \/ PushChunk
    \/ ColumnConcat
    \/ ColumnConcatLeft
    \/ ColumnConcatRight
    \/ ChunkConcat
    \/ ChunkConcatLeft
    \/ ChunkConcatRight

Spec == Init /\ [][Next]_vars

\* The caller starts with an empty slice and does not keep the precondition:
\* the columns or chunks it adds may disagree.
InitMixed ==
    /\ how = "none"
    /\ ret = NoRet
    /\ columns = <<>>
    /\ chunks = <<>>
    /\ \/ call = "Column::concat" /\ family \in MixedColumnFamilies
       \/ call = "Chunk::concat" /\ family \in MixedChunkFamilies
    /\ databases = Loaded(None)
    /\ NoCalls

SpecMixed == InitMixed /\ [][Next]_vars

\* The server has built its DataSource; "db1" was loaded by the local or the
\* remote factory, or by neither.  No concat call is in progress.
InitDS ==
    /\ call = "DataSource"
    /\ family = "none"
    /\ columns = <<>>
    /\ chunks = <<>>
    /\ how = "none"
    /\ ret = NoRet
    /\ \E db1 \in {None, Entry("Local", "start"), Entry("Remote", "start")} :
          databases = Loaded(db1)
    /\ NoCalls

NextDS ==
    \/ \E t \in Tasks : GetDatabase(t)
    \/ \E t \in Tasks : CreateCheck(t)
    \/ \E t \in Tasks : CreateInsertLocal(t)
    \/ \E t \in Tasks : CreateGetClient(t)
    \/ \E t \in Tasks : CreateRemote(t)
    \/ \E t \in Tasks : DropCheck(t)
    \/ \E t \in Tasks : DropGet(t)
    \/ \E t \in Tasks : DropRemoveLocal(t)
    \/ \E t \in Tasks : DropGetClient(t)
    \/ \E t \in Tasks : DropRemote(t)

SpecDS == InitDS /\ [][NextDS]_vars

\* ------------------------------------------------------------ logical rows

\* The logical rows c[1], ..., c[len] of a dense column.  A String row is its
\* byte slice, an Array row the rows of its span of the inner column, a
\* Nullable row its validity bit with the payload slot, a Tuple row the tuple
\* of its fields' rows.
RECURSIVE RowsOf(_)
RowsOf(c) ==
    CASE c.tag = "Number" -> c.buffer
      [] c.tag = "Null" -> [i \in 1..c.len |-> "null"]
      [] c.tag = "EmptyArray" -> [i \in 1..c.len |-> <<>>]
      [] c.tag = "Boolean" -> c.bitmap
      [] c.tag = "String" ->
            [i \in 1..(Len(c.offsets) - 1) |->
                 SubSeq(c.data, c.offsets[i] + 1, c.offsets[i + 1])]
      [] c.tag = "Array" ->
            LET inner == RowsOf(c.values)
            IN  [i \in 1..(Len(c.offsets) - 1) |->
                     SubSeq(inner, c.offsets[i] + 1, c.offsets[i + 1])]
      [] c.tag = "Nullable" ->
            LET inner == RowsOf(c.column)
            IN  [i \in 1..Len(c.validity) |->
                     [valid |-> c.validity[i], value |-> inner[i]]]
      [] c.tag = "Tuple" ->
            [i \in 1..c.len |-> [j \in 1..Len(c.fields) |-> RowsOf(c.fields[j])[i]]]

\* The logical row a scalar stands for.
ScalarRow(s) ==
    CASE s.tag = "Null" -> "null"
      [] s.tag = "EmptyArray" -> <<>>
      [] s.tag = "Number" -> s.value
      [] s.tag = "Boolean" -> s.value
      [] s.tag = "String" -> s.value

\* The logical rows of a column slot of a chunk of num_rows rows.
ValueRows(v, num_rows) ==
    IF v.kind = "Scalar" THEN [i \in 1..num_rows |-> ScalarRow(v.scalar)]
    ELSE RowsOf(v.column)

\* The concatenation of a sequence of sequences.
RECURSIVE Flatten(_)
Flatten(ss) == IF ss = <<>> THEN <<>> ELSE Head(ss) \o Flatten(Tail(ss))

\* The sum of a sequence of numbers.
RECURSIVE Sum(_)
Sum(ns) == IF ns = <<>> THEN 0 ELSE Head(ns) + Sum(Tail(ns))

\* The rows that precede input m in the output: the lengths of inputs 1..m-1.
ColumnOffset(m) == Sum([i \in 1..(m - 1) |-> ColumnLen(columns[i])])

ChunkOffset(m) == Sum([i \in 1..(m - 1) |-> chunks[i].num_rows])

ColumnReturned == call = "Column::concat" /\ how = "flat" /\ ret.status = "Ok"

ChunkReturned == call = "Chunk::concat" /\ how = "flat" /\ ret.status = "Ok"

\* ------------------------------------------------------------------ claims

\* C1: for every non-empty slice of columns of one variant and inner type,
\* Column::concat's rows are the rows of the inputs in order: its length is
\* the sum of the input lengths and output row ColumnOffset(m) + r is row r of
\* input m, for every variant and also for inputs of length 0.
C1_RowPreservation ==
    ColumnReturned =>
        LET rows == RowsOf(ret.value)
        IN  /\ ColumnLen(ret.value) = Sum([i \in 1..Len(columns) |-> ColumnLen(columns[i])])
            /\ Len(rows) = ColumnLen(ret.value)
            /\ \A m \in 1..Len(columns) :
                  \A r \in 1..ColumnLen(columns[m]) :
                      rows[ColumnOffset(m) + r] = RowsOf(columns[m])[r]

\* C1 witness: three Array columns, the middle one of length 0, merged into
\* a column of four rows.
C1_Witness ==
    /\ ColumnReturned
    /\ Len(columns) = 3
    /\ columns[1].tag = "Array"
    /\ ColumnLen(columns[1]) = 2
    /\ ColumnLen(columns[2]) = 0
    /\ ColumnLen(columns[3]) = 2
    /\ ColumnLen(ret.value) = 4

\* C2: Chunk::concat of an empty slice returns the EmptyData error and no
\* chunk; of a non-empty slice of one schema it returns Ok; no other error
\* value is ever returned.
C2_OnlyEmptyInputError ==
    (call = "Chunk::concat" /\ how = "flat") =>
        /\ Len(chunks) = 0 => ret = Err("EmptyData")
        /\ Len(chunks) > 0 => ret.status = "Ok"
        /\ ret.status = "Err" => ret.code = "EmptyData"

\* C2 witness: the call on the empty slice has returned the error.
C2_Witness ==
    /\ call = "Chunk::concat"
    /\ how = "flat"
    /\ chunks = <<>>
    /\ ret = Err("EmptyData")

\* C3: for k >= 2 chunks of one schema that satisfy the chunk invariant, the
\* returned chunk has the sum of the row counts, as many columns as c_0, and
\* every column of that length, also with zero columns or zero rows.
C3_ChunkInvariant ==
    (ChunkReturned /\ Len(chunks) >= 2) =>
        LET out == ret.value
        IN  /\ out.num_rows = Sum([i \in 1..Len(chunks) |-> chunks[i].num_rows])
            /\ Len(out.columns) = Len(chunks[1].columns)
            /\ \A j \in 1..Len(out.columns) :
                  /\ out.columns[j].kind = "Column"
                  /\ ColumnLen(out.columns[j].column) = out.num_rows

\* C3 witness: three two-column chunks, one of them with no rows and one with
\* a scalar slot, merged into a chunk of three rows.
C3_Witness ==
    /\ ChunkReturned
    /\ Len(chunks) = 3
    /\ Len(chunks[1].columns) = 2
    /\ chunks[1].num_rows = 0
    /\ chunks[2].num_rows = 2
    /\ chunks[2].columns[1].kind = "Scalar"
    /\ chunks[3].num_rows = 1
    /\ ret.value.num_rows = 3

\* C4 as stated: every column slot of every chunk Chunk::concat returns is a
\* dense column, also for a slice of exactly one chunk.
C4_AlwaysDense ==
    ChunkReturned =>
        \A j \in 1..Len(ret.value.columns) : ret.value.columns[j].kind = "Column"

\* C4, amended: for every slice of at least two chunks, every column slot of
\* the returned chunk is Value::Column, whatever mix of Scalar and Column the
\* inputs hold in that slot (a slice of one chunk returns that chunk as it
\* is, scalars included).
C4_DenseResult ==
    (call = "Chunk::concat" /\ ret.status = "Ok" /\ (how # "flat" \/ Len(chunks) >= 2)) =>
        \A j \in 1..Len(ret.value.columns) : ret.value.columns[j].kind = "Column"

\* C4 witness: two chunks that both hold a scalar in slot 1 were merged.
C4_Witness ==
    /\ ChunkReturned
    /\ Len(chunks) = 2
    /\ Len(chunks[1].columns) >= 1
    /\ chunks[1].columns[1].kind = "Scalar"
    /\ chunks[2].columns[1].kind = "Scalar"
    /\ ret.value.num_rows >= 2
    /\ ret.value.columns[1].kind = "Column"

\* C5: a chunk m that holds Scalar(v) in slot j with R rows contributes the
\* rows ChunkOffset(m) + 1 .. ChunkOffset(m) + R of output column j, all equal
\* to v, whatever the other chunks hold in slot j; with R = 0 it contributes
\* no row, so the output column has exactly the sum of the row counts.
C5_ScalarBroadcast ==
    ChunkReturned =>
        \A j \in 1..Len(ret.value.columns) :
            LET rows == ValueRows(ret.value.columns[j], ret.value.num_rows)
            IN  /\ Len(rows) = Sum([i \in 1..Len(chunks) |-> chunks[i].num_rows])
                /\ \A m \in 1..Len(chunks) :
                      chunks[m].columns[j].kind = "Scalar" =>
                          \A r \in 1..chunks[m].num_rows :
                              rows[ChunkOffset(m) + r] = ScalarRow(chunks[m].columns[j].scalar)

\* C5 witness: a dense chunk, then a scalar chunk of two rows, then a scalar
\* chunk of no rows.
C5_Witness ==
    /\ ChunkReturned
    /\ Len(chunks) = 3
    /\ Len(chunks[1].columns) >= 1
    /\ chunks[1].columns[1].kind = "Column"
    /\ chunks[1].num_rows = 2
    /\ chunks[2].columns[1].kind = "Scalar"
    /\ chunks[2].num_rows = 2
    /\ chunks[3].columns[1].kind = "Scalar"
    /\ chunks[3].num_rows = 0
    /\ ret.value.columns[1].kind = "Column"

\* C6: Chunk::concat of exactly one chunk returns a chunk equal to it (row
\* count and column slots, scalars kept as scalars), and Column::concat of
\* exactly one column returns that column.
C6_SingletonIdentity ==
    /\ (ChunkReturned /\ Len(chunks) = 1) => ret.value = chunks[1]
    /\ (ColumnReturned /\ Len(columns) = 1) => ret.value = columns[1]

\* C6 witness: a one-chunk slice whose chunk has a scalar slot and two rows
\* was returned.
C6_Witness ==
    /\ ChunkReturned
    /\ Len(chunks) = 1
    /\ Len(chunks[1].columns) >= 1
    /\ chunks[1].columns[1].kind = "Scalar"
    /\ chunks[1].num_rows = 2

\* The row count and the logical rows of every column slot of a chunk.
ChunkRows(c) ==
    [num_rows |-> c.num_rows,
     rows |-> [j \in 1..Len(c.columns) |-> ValueRows(c.columns[j], c.num_rows)]]

\* C7: merging three columns, or three chunks, in two calls (the first two
\* first, or the last two first) gives the row count and the logical rows of
\* merging them in one call.
C7_Associativity ==
    /\ (call = "Column::concat" /\ how \in {"left", "right"}) =>
          /\ ColumnLen(ret.value) = ColumnLen(Column_concat(columns))
          /\ RowsOf(ret.value) = RowsOf(Column_concat(columns))
    /\ (call = "Chunk::concat" /\ how \in {"left", "right"}) =>
          /\ ret.status = "Ok"
          /\ ChunkRows(ret.value) = ChunkRows(Chunk_concat(chunks).value)

\* C7 witness: three chunks, a scalar slot first and a dense slot last, were
\* merged the last two first.
C7_Witness ==
    /\ call = "Chunk::concat"
    /\ how = "right"
    /\ Len(chunks[1].columns) >= 1
    /\ chunks[1].columns[1].kind = "Scalar"
    /\ chunks[1].num_rows = 1
    /\ chunks[2].num_rows = 1
    /\ chunks[3].columns[1].kind = "Column"
    /\ chunks[3].num_rows = 2
    /\ ret.status = "Ok"

\* TRUE iff a sequence of numbers never decreases.
Nondecreasing(ns) == \A i \in 1..(Len(ns) - 1) : ns[i] <= ns[i + 1]

\* The slice at hand is k >= 2 columns of variant `tag`, merged in one call.
MergedColumns(tag) ==
    ColumnReturned /\ Len(columns) >= 2 /\ columns[1].tag = tag

\* C8: for k >= 2 Nullable inputs with validity.len() == inner.len(), the
\* result is Nullable; its validity is the input bitmaps in order, its column
\* is Column::concat of the input inner columns and holds every payload slot,
\* those of null rows included, and both have the sum of the input lengths.
C8_NullableComposer ==
    MergedColumns("Nullable") =>
        LET out == ret.value
            C == Sum([i \in 1..Len(columns) |-> ColumnLen(columns[i])])
        IN  /\ out.tag = "Nullable"
            /\ out.validity = Flatten([i \in 1..Len(columns) |-> columns[i].validity])
            /\ out.column = Column_concat([i \in 1..Len(columns) |-> columns[i].column])
            /\ RowsOf(out.column) =
                   Flatten([i \in 1..Len(columns) |-> RowsOf(columns[i].column)])
            /\ Len(out.validity) = C
            /\ ColumnLen(out.column) = C

\* C8 witness: two Nullable columns with a null row each, the second null
\* row with payload 2, were merged.
C8_Witness ==
    /\ MergedColumns("Nullable")
    /\ Len(columns) = 2
    /\ columns[1].validity = <<TRUE, FALSE>>
    /\ columns[2].validity = <<FALSE, TRUE>>
    /\ columns[2].column.buffer = <<2, 1>>
    /\ ret.value.validity = <<TRUE, FALSE, FALSE, TRUE>>

\* C9: for k >= 2 String inputs, output row ColumnOffset(m) + r has the bytes
\* of row r of input m (an empty string is a row of its own), and the output
\* offsets start at 0, never decrease, have C + 1 entries and end at the data
\* length, which is the sum of the input rows' byte lengths.
C9_StringBytes ==
    MergedColumns("String") =>
        LET out == ret.value
            C == Sum([i \in 1..Len(columns) |-> ColumnLen(columns[i])])
            bytes(c, r) == SubSeq(c.data, c.offsets[r] + 1, c.offsets[r + 1])
        IN  /\ out.tag = "String"
            /\ Len(out.offsets) = C + 1
            /\ out.offsets[1] = 0
            /\ Nondecreasing(out.offsets)
            /\ out.offsets[C + 1] = Len(out.data)
            /\ Len(out.data) =
                   Sum([i \in 1..Len(columns) |->
                            Sum([r \in 1..ColumnLen(columns[i]) |->
                                     Len(bytes(columns[i], r))])])
            /\ \A m \in 1..Len(columns) :
                  \A r \in 1..ColumnLen(columns[m]) :
                      bytes(out, ColumnOffset(m) + r) = bytes(columns[m], r)

\* C9 witness: [""], ["a", "bc"], [""] were merged into four rows over the
\* bytes "abc".
C9_Witness ==
    /\ MergedColumns("String")
    /\ Len(columns) = 3
    /\ RowsOf(columns[1]) = <<<<>>>>
    /\ RowsOf(columns[2]) = <<<<97>>, <<98, 99>>>>
    /\ RowsOf(columns[3]) = <<<<>>>>
    /\ ret.value.offsets = <<0, 0, 1, 3, 3>>
    /\ ret.value.data = <<97, 98, 99>>

\* C10: for k >= 2 Array inputs, every output row holds the inner elements
\* of its source row, the output's inner column holds the inner elements of
\* the input rows in order and nothing else, and the output offsets start at
\* 0, never decrease and end at the inner column's length.
C10_ArrayRows ==
    MergedColumns("Array") =>
        LET out == ret.value
            C == Sum([i \in 1..Len(columns) |-> ColumnLen(columns[i])])
        IN  /\ out.tag = "Array"
            /\ Len(out.offsets) = C + 1
            /\ out.offsets[1] = 0
            /\ Nondecreasing(out.offsets)
            /\ out.offsets[C + 1] = ColumnLen(out.values)
            /\ RowsOf(out.values) =
                   Flatten([i \in 1..Len(columns) |-> Flatten(RowsOf(columns[i]))])
            /\ \A m \in 1..Len(columns) :
                  \A r \in 1..ColumnLen(columns[m]) :
                      RowsOf(out)[ColumnOffset(m) + r] = RowsOf(columns[m])[r]

\* C10 witness: Array<String> [["x"], []] and [["y", "z"]] were merged into
\* three rows over the inner column ["x", "y", "z"].
C10_Witness ==
    /\ family = "Array(String)"
    /\ MergedColumns("Array")
    /\ Len(columns) = 2
    /\ RowsOf(columns[1]) = <<<<<<120>>>>, <<>>>>
    /\ RowsOf(columns[2]) = <<<<<<121>>, <<122>>>>>>
    /\ ret.value.offsets = <<0, 1, 1, 3>>
    /\ RowsOf(ret.value.values) = <<<<120>>, <<121>>, <<122>>>>

\* C11: for k >= 2 Tuple inputs with one field list, the result is a Tuple
\* with the field count and order of x_0, field j is Column::concat of the
\* j-th fields of the inputs and holds their rows in order, and len and every
\* field's length are the sum of the input lengths, also with no fields.
C11_TupleFieldwise ==
    MergedColumns("Tuple") =>
        LET out == ret.value
            C == Sum([i \in 1..Len(columns) |-> ColumnLen(columns[i])])
        IN  /\ out.tag = "Tuple"
            /\ Len(out.fields) = Len(columns[1].fields)
            /\ out.len = C
            /\ \A j \in 1..Len(out.fields) :
                  /\ out.fields[j] =
                         Column_concat([i \in 1..Len(columns) |-> columns[i].fields[j]])
                  /\ RowsOf(out.fields[j]) =
                         Flatten([i \in 1..Len(columns) |-> RowsOf(columns[i].fields[j])])
                  /\ ColumnLen(out.fields[j]) = C

\* C11 witness: three Tuple(Nullable<Int64>, String) columns of 1, 0 and 2
\* rows were merged into a tuple of 3 rows with two fields.
C11_Witness ==
    /\ family = "Tuple(Nullable(Int64), String)"
    /\ MergedColumns("Tuple")
    /\ Len(columns) = 3
    /\ columns[1].len = 1
    /\ columns[2].len = 0
    /\ columns[3].len = 2
    /\ Len(ret.value.fields) = 2
    /\ ret.value.len = 3

\* C12: Column::concat returns a column for every type-agreeing slice of any
\* length k, and never aborts.
C12_Infallible ==
    (call = "Column::concat" /\ ret # NoRet) => ret.status = "Ok"

\* The variant tag of a column with its parametric type, at every depth.
RECURSIVE TypeOf(_)
TypeOf(c) ==
    CASE c.tag = "Number" -> <<"Number", c.ty>>
      [] c.tag = "Array" -> <<"Array", TypeOf(c.values)>>
      [] c.tag = "Nullable" -> <<"Nullable", TypeOf(c.column)>>
      [] c.tag = "Tuple" ->
             <<"Tuple", [j \in 1..Len(c.fields) |-> TypeOf(c.fields[j])]>>
      [] OTHER -> <<c.tag>>

\* C13: for a non-empty slice of same-typed columns, the variant tag and the
\* parametric type of the result equal those of x_0 at every nesting depth.
C13_TypeStability ==
    ColumnReturned =>
        /\ TypeOf(ret.value) = TypeOf(columns[1])
        /\ \A i \in 1..Len(columns) : TypeOf(columns[i]) = TypeOf(ret.value)

\* C13 witness: two or more Tuple(Nullable<Int64>, String) columns with rows
\* were merged, and the result has that type.
C13_Witness ==
    /\ family = "Tuple(Nullable(Int64), String)"
    /\ ColumnReturned
    /\ Len(columns) >= 2
    /\ ret.value.len >= 2
    /\ TypeOf(ret.value) =
           <<"Tuple", <<<<"Nullable", <<"Number", "Int64">>>>, <<"String">>>>>>

\* The bytes of a String column's rows: offsets[len] - offsets[0].
total_bytes(c) == c.offsets[Len(c.offsets)] - c.offsets[1]

\* C15: for k >= 2 String inputs the builder is created with value_capacity
\* C and with data_capacity exactly the sum of the inputs' total bytes: not
\* smaller than the bytes appended, not larger than that sum, and computed
\* without underflow.
C15_StringCapacity ==
    MergedColumns("String") =>
        LET C == SumLen(columns)
            builder == StringColumnBuilder_with_capacity(C, data_capacity(columns))
            bytes == Sum([i \in 1..Len(columns) |-> total_bytes(columns[i])])
        IN  /\ builder.value_capacity = C
            /\ builder.data_capacity = bytes
            /\ builder.data_capacity >= Len(ret.value.data)
            /\ builder.data_capacity <= bytes
            /\ \A i \in 1..Len(columns) :
                  memory_size(columns[i]) >= ColumnLen(columns[i]) * 8

\* A returned value is whole: a column of all the input rows, or a chunk of
\* all the input rows with every column of chunks[0]; an error or an abort
\* carries no value.
Whole(r) ==
    CASE r.status = "Ok" /\ call = "Column::concat" ->
             ColumnLen(r.value) = SumLen(columns)
      [] r.status = "Ok" /\ call = "Chunk::concat" ->
             /\ r.value.num_rows = SumRows(chunks)
             /\ Len(r.value.columns) = Len(chunks[1].columns)
             /\ \A j \in 1..Len(r.value.columns) :
                   r.value.columns[j].kind = "Column" =>
                       ColumnLen(r.value.columns[j].column) = r.value.num_rows
      [] r.status = "Err" -> r = Err("EmptyData") /\ chunks = <<>>
      [] OTHER -> r = Panic

\* C14: a call of Chunk::concat or Column::concat, whether it returns Ok,
\* returns EmptyInput or aborts on a mismatched column count or variant,
\* leaves every input chunk and column as it was, and yields either the whole
\* result or no value at all.
C14_NoSideEffectNoPartial ==
    [][(ret = NoRet /\ ret' # NoRet) =>
           /\ columns' = columns
           /\ chunks' = chunks
           /\ Whole(ret')]_vars

\* C14 witness: Chunk::concat aborted on three chunks of which the first has
\* two columns and a later one has one, and the caller still holds all three.
C14_Witness ==
    /\ call = "Chunk::concat"
    /\ how = "flat"
    /\ ret = Panic
    /\ Len(chunks) = 3
    /\ Len(chunks[1].columns) = 2
    /\ \E k \in 2..3 : Len(chunks[k].columns) = 1

\* Task t has returned from a create_database call with if_not_exists = false.
StrictCreateDone(t) ==
    /\ pc[t] = "done"
    /\ plan[t].op = "create"
    /\ ~plan[t].if_not_exists

\* C16: create_database is atomic with respect to its existence test: with
\* if_not_exists = false on a name in the map it returns an error and leaves
\* the map as it was; of two concurrent calls for one absent name with
\* if_not_exists = false at most one returns Ok, and an entry in the map is
\* never overwritten by another create.
C16_CreateAtomic ==
    [][/\ \A t \in Tasks :
             (pc[t] = "idle" /\ StrictCreateDone(t)' /\ databases[plan'[t].db] # None) =>
                 (result'[t].status = "Err" /\ databases' = databases)
       /\ \A n \in Names :
             ~(\A t \in Tasks :
                  (StrictCreateDone(t) /\ plan[t].db = n /\ result[t].status = "Ok")')
       /\ \A n \in Names :
             databases[n] # None => databases'[n] \in {databases[n], None}]_vars

\* Task t has returned from a drop_database call.
DropDone(t) == pc[t] = "done" /\ plan[t].op = "drop"

\* C17: drop_database with if_exists = true never returns UnknownDatabase,
\* whatever another drop_database or create_database on the name does
\* meanwhile; and once a drop of a local database has returned Ok, the name
\* is unknown to get_database unless a create_database has inserted it again.
C17_DropIfExists ==
    \A t \in Tasks :
        DropDone(t) =>
            /\ plan[t].if_exists => result[t] # Err("UnknownDatabase")
            /\ (result[t].status = "Ok" /\ database[t].engine = "Local") =>
                   \/ get_database(plan[t].db) = Err("UnknownDatabase")
                   \/ \E u \in Tasks \ {t} :
                         /\ pc[u] = "done"
                         /\ plan[u].op = "create"
                         /\ plan[u].db = plan[t].db
                         /\ databases[plan[t].db].by = u

====
